---- MODULE Spec2Model ----
(***************************************************************************)
(* A model of utxt: the UTF-8 decoder, the sorted glyph and kerning        *)
(* tables, the text width, utxt_draw_text and the layout engine (reset /   *)
(* add_text / add_glyphs / compute).                                       *)
(*                                                                         *)
(* Positions are floats in the source.  The model counts in 1/1024 of a    *)
(* pixel: all metrics, kerning amounts and wrap widths are whole pixels,   *)
(* px(n), so every sum and difference is exact and so is every halving of  *)
(* CENTER alignment, in float as in integer arithmetic (ExactHalves).      *)
(*                                                                         *)
(* Indices are 0-based as in the source; a sequence s of the model holds   *)
(* the element of index i at s[i + 1].                                     *)
(***************************************************************************)
EXTENDS Integers, Sequences, FiniteSets, TLC

VARIABLES
    layout,          \* struct Layout (lglyphs holds the lglyph_idx committed entries)
    pc,              \* "idle", "add_text" (inside the decode loop), "decode", "abort",
                     \* "add_glyphs", "find", "found", "count", "draw", "done"
    text,            \* the bytes of the span not yet consumed
    style,           \* the style of the running add_text call (its font, 1-based)
    prev_glyph_idx,  \* add_text local
    chunk,           \* add_text local: chunk[0 .. chunk_idx - 1]
    chunk_cursor_x,  \* add_text local
    ret,             \* the value the last add_text call returned
    cp,              \* the value the last decode_utf8 call returned
    hist             \* history: what the last step did, and the state it started from

vars == <<layout, pc, text, style, prev_glyph_idx, chunk, chunk_cursor_x, ret, cp, hist>>

(***************************************************************************)
(* Bounds of the model.                                                    *)
(***************************************************************************)
\* longest text of one add_text call, in bytes
MaxTextLen == 3
\* bytes handed to add_text between two resets
MaxBytes == 3
\* add_text and compute calls between two resets
MaxOps == 3
\* longest byte span handed to the bare decoder
MaxSpanLen == 3
\* most glyphs of a glyph table handed to the bare lookup
MaxGlyphs == 5
\* longest text handed to utxt_draw_text, in bytes, and its largest buffer
MaxDrawLen == 3
MaxQuads == 2

\* n pixels
px(n) == n * 1024

\* capacities handed to utxt_layout_create
Capacities == {0, 1, 2}
\* wrap widths handed to utxt_layout_reset
WrapWidths == {px(16)}
\* '\n', ' ', 'a', 'b' and a stray continuation byte
LayoutBytes == {10, 32, 97, 98, 128}
\* NUL, 'a', 'b' (in one font only) and a stray continuation byte
DrawBytes == {0, 97, 98, 128}
\* the x origins handed to utxt_draw_text
DrawOrigins == {0, px(5)}
\* codepoints of glyph tables, and codepoints looked up: those, codepoints
\* below, between and above them
TableCodepoints == {32, 65, 97, 98, 233, 8364, 128512}
Queries == TableCodepoints \cup {0, 31, 66, 8365, 128513}
\* NUL, 'A', continuation bytes, 2-, 3- and 4-byte leaders, an invalid leader
SpanBytes == {0, 65, 128, 169, 191, 195, 226, 240, 248}

UTXT_TEXT_ALIGN_LEFT == 0
UTXT_TEXT_ALIGN_CENTER == 1
UTXT_TEXT_ALIGN_RIGHT == 2
Aligns == {UTXT_TEXT_ALIGN_LEFT, UTXT_TEXT_ALIGN_CENTER, UTXT_TEXT_ALIGN_RIGHT}

\* std::array<utxt_layout_glyph, 128> chunk
ChunkSize == 128

\* the lengths of the long words handed to add_text: one glyph less than the
\* chunk array holds, as many, one more
LongWordLens == {ChunkSize - 1, ChunkSize, ChunkSize + 1}

Min(a, b) == IF a < b THEN a ELSE b

SeqsUpTo(S, n) == UNION {[1..k -> S] : k \in 0..n}

\* the numbers of S in ascending order
RECURSIVE Ascending(_)
Ascending(S) ==
    IF S = {} THEN <<>>
    ELSE LET m == CHOOSE m \in S : \A n \in S : m <= n
         IN <<m>> \o Ascending(S \ {m})

(***************************************************************************)
(* Fonts.  A font is its metrics' line_height, its glyph table (sorted by  *)
(* codepoint, glyph_codepoints being the lookup array) and its kerning     *)
(* table (sorted by first_glyph, then second_glyph).                       *)
(***************************************************************************)
Glyph(c, gi, bx, by, w, adv) ==
    [codepoint |-> c, glyph_index |-> gi, bearing_x |-> px(bx), bearing_y |-> px(by),
     width |-> px(w), advance |-> px(adv)]

FontA ==
    [line_height |-> px(10),
     glyph_codepoints |-> <<32, 97, 98>>,
     glyphs |-> <<Glyph(32, 1, 0, 0, 0, 4),
                  Glyph(97, 2, 2, -6, 6, 8),
                  Glyph(98, 3, 0, -8, 4, 6)>>,
     kerning_pairs |-> <<[first_glyph |-> 2, second_glyph |-> 3, amount |-> px(-2)]>>]

FontB ==
    [line_height |-> px(14),
     glyph_codepoints |-> <<32, 97>>,
     glyphs |-> <<Glyph(32, 1, 0, 0, 0, 6),
                  Glyph(97, 2, 0, -10, 10, 12)>>,
     kerning_pairs |-> <<>>]

Fonts == <<FontA, FontB>>
Styles == DOMAIN Fonts

(***************************************************************************)
(* Table lookup.                                                           *)
(***************************************************************************)
\* A sort key is the 64-bit value (hi << 32) | lo, held as <<hi, lo>> and
\* compared as such: a codepoint's key is the codepoint, a kerning pair's
\* (first_glyph << 32) | second_glyph.
sort_key_cp(v) == <<0, v>>

sort_key(pair) == <<pair.first_glyph, pair.second_glyph>>

key_less(a, b) == a[1] < b[1] \/ (a[1] = b[1] /\ a[2] < b[2])

\* mutant: the upper bound is taken as inclusive when the range is cut
RECURSIVE bsearch_cuts_mid(_, _, _, _)
bsearch_cuts_mid(keys, needle_key, low, high) ==
    IF low < high
    THEN LET mid == low + (high - low) \div 2
             mid_key == keys[mid + 1]
         IN IF key_less(mid_key, needle_key)
            THEN bsearch_cuts_mid(keys, needle_key, mid + 1, high)
            ELSE IF key_less(needle_key, mid_key)
            THEN bsearch_cuts_mid(keys, needle_key, low, mid - 1)
            ELSE mid
    ELSE Len(keys)

RECURSIVE bsearch(_, _, _, _)
bsearch(keys, needle_key, low, high) ==
    IF low < high
    THEN LET mid == low + (high - low) \div 2
             mid_key == keys[mid + 1]
         IN IF key_less(mid_key, needle_key) THEN bsearch(keys, needle_key, mid + 1, high)
            ELSE IF key_less(needle_key, mid_key) THEN bsearch(keys, needle_key, low, mid)
            ELSE mid
    ELSE Len(keys)

\* the index of needle_key in keys, Len(keys) when it is absent
binary_search(keys, needle_key) == bsearch(keys, needle_key, 0, Len(keys))

\* The glyph pointer: the glyph's index in font.glyphs plus one, 0 for nullptr.
find_glyph(font, c) ==
    LET keys == [i \in 1..Len(font.glyph_codepoints) |->
                    sort_key_cp(font.glyph_codepoints[i])]
        idx == binary_search(keys, sort_key_cp(c))
    IN IF idx >= Len(font.glyphs) THEN 0 ELSE idx + 1

\* the font utxt_font_create makes of a glyph table: glyph_codepoints[i] is
\* glyphs[i].codepoint
TableFont(codepoints) ==
    [line_height |-> 0,
     glyph_codepoints |-> codepoints,
     glyphs |-> [i \in 1..Len(codepoints) |-> Glyph(codepoints[i], i, 0, 0, 1, 1)],
     kerning_pairs |-> <<>>]

utxt_get_kerning(font, first_glyph, second_glyph) ==
    LET keys == [i \in 1..Len(font.kerning_pairs) |-> sort_key(font.kerning_pairs[i])]
        idx == binary_search(keys,
                   sort_key([first_glyph |-> first_glyph, second_glyph |-> second_glyph]))
    IN IF idx >= Len(font.kerning_pairs) THEN 0 ELSE font.kerning_pairs[idx + 1].amount

(***************************************************************************)
(* decode_utf8: the codepoint and the span that is left.  u & 0xE0 == 0xC0 *)
(* is u \div 32 = 6, u & 0x1F is u % 32, << 6 is * 64, and so on.          *)
(***************************************************************************)
\* { s.data + n, s.len - n }
Skip(s, n) == SubSeq(s, n + 1, Len(s))

IsCont(b) == b \div 64 = 2

decode_utf8(s) ==
    IF Len(s) = 0 THEN [cp |-> 0, s |-> s]
    ELSE IF s[1] < 128 THEN [cp |-> s[1], s |-> Skip(s, 1)]
    ELSE IF s[1] \div 32 = 6 THEN
        IF Len(s) < 2 \/ ~IsCont(s[2]) THEN [cp |-> 0, s |-> s]
        ELSE [cp |-> (s[1] % 32) * 64 + (s[2] % 64), s |-> Skip(s, 2)]
    ELSE IF s[1] \div 16 = 14 THEN
        IF Len(s) < 3 \/ ~IsCont(s[2]) \/ ~IsCont(s[3]) THEN [cp |-> 0, s |-> s]
        ELSE [cp |-> (s[1] % 16) * 4096 + (s[2] % 64) * 64 + (s[3] % 64),
              s |-> Skip(s, 3)]
    ELSE IF s[1] \div 8 = 30 THEN
        IF Len(s) < 4 \/ ~IsCont(s[2]) \/ ~IsCont(s[3]) \/ ~IsCont(s[4])
        THEN [cp |-> 0, s |-> s]
        ELSE [cp |-> (s[1] % 8) * 262144 + (s[2] % 64) * 4096 + (s[3] % 64) * 64
                     + (s[4] % 64),
              s |-> Skip(s, 4)]
    ELSE [cp |-> 0, s |-> s]

is_whitespace(c) == c = 32 \/ c = 10 \/ c = 13

(***************************************************************************)
(* Text metrics.  A loop of the source is a recursive operator over the    *)
(* loop's variables; an iteration that leaves them all as they were        *)
(* repeats for ever, and the operator then answers ends |-> FALSE.         *)
(***************************************************************************)
\* the glyph pointer and the span that is left
decode_glyph(font, s) ==
    LET d == decode_utf8(s)
    IN [glyph |-> IF d.cp = 0 THEN 0 ELSE find_glyph(font, d.cp), s |-> d.s]

\* the code after the loop of utxt_get_text_width: end - start
text_width_end(font, cursor, first, last) ==
    IF first = 0 THEN 0
    ELSE LET start == font.glyphs[first].bearing_x
             end == cursor - font.glyphs[last].advance + font.glyphs[last].bearing_x
                    + font.glyphs[last].width
         IN end - start

RECURSIVE text_width_loop(_, _, _, _, _, _)
text_width_loop(font, t, cursor, prev, first, last) ==
    IF Len(t) = 0
    THEN [ends |-> TRUE, width |-> text_width_end(font, cursor, first, last)]
    ELSE LET d == decode_glyph(font, t)
             g == font.glyphs[d.glyph]
             kerned == IF prev # 0
                       THEN cursor + utxt_get_kerning(font, prev, g.glyph_index)
                       ELSE cursor
         IN IF d.glyph = 0
            THEN IF d.s = t /\ prev = 0
                 THEN [ends |-> FALSE, width |-> 0]
                 ELSE text_width_loop(font, d.s, cursor, 0, first, last)
            ELSE text_width_loop(font, d.s, kerned + g.advance, g.glyph_index,
                                 IF first = 0 THEN d.glyph ELSE first, d.glyph)

utxt_get_text_width(font, t) == text_width_loop(font, t, 0, 0, 0, 0)

(***************************************************************************)
(* utxt_draw_text.  A quad is [x, y, glyph], glyph standing for the width, *)
(* height and texture rectangle copied from the glyph.  A call is          *)
(* [text, cursor_x, quads, prev_glyph_idx, ret, done]: quads the entries   *)
(* quads[0 .. quad_idx - 1] written, done whether the call has returned    *)
(* and ret then the value returned (inside count_quads: quad_count).       *)
(***************************************************************************)
Draw(t, cursor_x, quads, prev, r, done) ==
    [text |-> t, cursor_x |-> cursor_x, quads |-> quads, prev_glyph_idx |-> prev,
     ret |-> r, done |-> done]

\* mutant: the buffer counts as full one quad late
buffer_full_late(quad_idx, num_quads) == quad_idx > num_quads

\* quad_idx >= num_quads
buffer_full(quad_idx, num_quads) == quad_idx >= num_quads

\* one iteration of the loop of utxt_draw_text, or the return after it
draw_text_iter(font, D, num_quads, y) ==
    LET d == decode_glyph(font, D.text)
        g == font.glyphs[d.glyph]
        cursor_x == IF D.prev_glyph_idx # 0
                    THEN D.cursor_x + utxt_get_kerning(font, D.prev_glyph_idx, g.glyph_index)
                    ELSE D.cursor_x
    IN IF Len(D.text) = 0 THEN [D EXCEPT !.ret = Len(D.quads), !.done = TRUE]
       ELSE IF d.glyph = 0 THEN [D EXCEPT !.text = d.s, !.prev_glyph_idx = 0]
       ELSE IF buffer_full(Len(D.quads), num_quads)
       THEN [D EXCEPT !.text = d.s, !.cursor_x = cursor_x, !.ret = num_quads + 1,
                      !.done = TRUE]
       ELSE [D EXCEPT !.text = d.s,
                      !.quads = Append(@, [x |-> cursor_x + g.bearing_x,
                                           y |-> y + g.bearing_y, glyph |-> d.glyph]),
                      !.cursor_x = cursor_x + g.advance,
                      !.prev_glyph_idx = g.glyph_index]

\* one iteration of the loop of count_quads, or the return after it
count_quads_iter(font, D) ==
    LET d == decode_glyph(font, D.text)
    IN IF Len(D.text) = 0 THEN [D EXCEPT !.done = TRUE]
       ELSE IF d.glyph = 0 THEN [D EXCEPT !.text = d.s]
       ELSE [D EXCEPT !.text = d.s, !.ret = @ + 1]

(***************************************************************************)
(* The layout engine.  A utxt_layout_glyph is [style, glyph, x, y]: style  *)
(* the index of the style's font, glyph the glyph pointer of find_glyph.   *)
(***************************************************************************)
GlyphOf(g) == Fonts[g.style].glyphs[g.glyph]

\* utxt_layout_create: value-initialised fields, the capacity stored
utxt_layout_create(num_glyphs) ==
    [num_lglyphs |-> num_glyphs, lglyphs |-> <<>>, wrap_width |-> 0,
     align |-> UTXT_TEXT_ALIGN_LEFT, cursor_x |-> 0, cursor_y |-> 0,
     line_start_idx |-> 0, current_line_height |-> 0]

\* lglyph_idx, the write cursor
lglyph_idx(L) == Len(L.lglyphs)

\* mutant: the reset leaves the line start and the line height as they were
utxt_layout_reset_keeps_line(L, wrap_width, align) ==
    [L EXCEPT !.wrap_width = wrap_width, !.align = align, !.lglyphs = <<>>,
              !.cursor_x = 0, !.cursor_y = 0]

utxt_layout_reset(L, wrap_width, align) ==
    [L EXCEPT !.wrap_width = wrap_width, !.align = align, !.lglyphs = <<>>,
              !.cursor_x = 0, !.cursor_y = 0, !.line_start_idx = 0,
              !.current_line_height = 0]

\* The visual width of a span of layout glyphs.  The source asserts the span
\* is not empty; get_width_asserts says when that assertion fails, and with
\* assertions compiled out the value read is indeterminate (it is then only
\* used to shift the glyphs of the same, empty, span).
get_width(lg) ==
    IF Len(lg) = 0 THEN 0
    ELSE LET first == lg[1]
             last == lg[Len(lg)]
             start_x == first.x - (IF first.glyph # 0 THEN GlyphOf(first).bearing_x ELSE 0)
             end_x == last.x + (IF last.glyph # 0 THEN GlyphOf(last).width ELSE 0)
         IN end_x - start_x

get_width_asserts(lg) == Len(lg) = 0

shift_glyphs(lg, shift) == [i \in 1..Len(lg) |-> [lg[i] EXCEPT !.x = @ + shift]]

\* the span of the open line: subspan(line_start_idx, lglyph_idx - line_start_idx)
line_span(L) == SubSeq(L.lglyphs, L.line_start_idx + 1, lglyph_idx(L))

closed_span(L) == SubSeq(L.lglyphs, 1, L.line_start_idx)

\* mutant: CENTER halves the line's width only, not the wrap width
align_shift_uncentred(L, line) ==
    IF L.align = UTXT_TEXT_ALIGN_CENTER THEN L.wrap_width - get_width(line) \div 2
    ELSE IF L.align = UTXT_TEXT_ALIGN_RIGHT THEN L.wrap_width - get_width(line)
    ELSE 0

\* wrap_width / 2.0f - get_width(line) / 2.0f, resp. wrap_width - get_width(line)
align_shift(L, line) ==
    IF L.align = UTXT_TEXT_ALIGN_CENTER THEN L.wrap_width \div 2 - get_width(line) \div 2
    ELSE IF L.align = UTXT_TEXT_ALIGN_RIGHT THEN L.wrap_width - get_width(line)
    ELSE 0

\* mutant: the shift is applied to every committed entry, closed lines too
align_line_whole(L) ==
    LET line == line_span(L)
    IN IF L.align = UTXT_TEXT_ALIGN_CENTER \/ L.align = UTXT_TEXT_ALIGN_RIGHT
       THEN [L EXCEPT !.lglyphs = shift_glyphs(L.lglyphs, align_shift(L, line))]
       ELSE L

align_line(L) ==
    LET line == line_span(L)
    IN IF L.align = UTXT_TEXT_ALIGN_CENTER \/ L.align = UTXT_TEXT_ALIGN_RIGHT
       THEN [L EXCEPT !.lglyphs = closed_span(L) \o shift_glyphs(line, align_shift(L, line))]
       ELSE L

align_line_asserts(L) ==
    /\ L.align = UTXT_TEXT_ALIGN_CENTER \/ L.align = UTXT_TEXT_ALIGN_RIGHT
    /\ get_width_asserts(line_span(L))

\* break_current_line up to its call of align_line
break_pen(L) ==
    [L EXCEPT !.cursor_x = 0, !.cursor_y = @ + L.current_line_height]

break_current_line(L, font) ==
    LET A == align_line(break_pen(L))
    IN [A EXCEPT !.line_start_idx = lglyph_idx(A),
                 !.current_line_height = font.line_height]

\* mutant: the capacity test lets one glyph too many through
chunk_exceeds_lax(L, lg) == lglyph_idx(L) + Len(lg) > L.num_lglyphs + 1

\* flush_chunk's capacity test (the chunk does not fit)
chunk_exceeds(L, lg) == lglyph_idx(L) + Len(lg) > L.num_lglyphs

\* mutant: a chunk that ends exactly at the wrap width breaks the line
chunk_breaks_at_edge(L, lg) ==
    L.cursor_x > 0 /\ L.cursor_x + get_width(lg) >= L.wrap_width

\* mutant: an overflowing chunk breaks the line even when the line is empty
chunk_breaks_on_empty(L, lg) == L.cursor_x + get_width(lg) > L.wrap_width

\* mutant: the test looks at the pen only, not at the chunk's width
chunk_breaks_past_pen(L, lg) ==
    L.cursor_x > 0 /\ L.cursor_x > L.wrap_width

\* flush_chunk's test for breaking the line before the chunk
chunk_breaks(L, lg) ==
    L.cursor_x > 0 /\ L.cursor_x + get_width(lg) > L.wrap_width

\* the chunk's glyphs offset by the pen
place_chunk(L, lg) ==
    [i \in 1..Len(lg) |-> [lg[i] EXCEPT !.x = @ + L.cursor_x, !.y = @ + L.cursor_y]]

\* mutant: a chunk that does not fit is committed as far as it fits
flush_chunk_partial(L, font, lg, chunk_advance) ==
    IF Len(lg) = 0 THEN [ok |-> TRUE, layout |-> L]
    ELSE LET B == IF chunk_breaks(L, lg) THEN break_current_line(L, font) ELSE L
             fits == SubSeq(lg, 1, L.num_lglyphs - lglyph_idx(L))
         IN [ok |-> ~chunk_exceeds(L, lg),
             layout |-> [B EXCEPT !.lglyphs = @ \o place_chunk(B, fits),
                                  !.cursor_x = @ + chunk_advance]]

\* flush_chunk: [ok |-> its return value, layout |-> the layout it leaves]
flush_chunk(L, font, lg, chunk_advance) ==
    IF Len(lg) = 0 THEN [ok |-> TRUE, layout |-> L]
    ELSE IF chunk_exceeds(L, lg) THEN [ok |-> FALSE, layout |-> L]
    ELSE LET B == IF chunk_breaks(L, lg) THEN break_current_line(L, font) ELSE L
         IN [ok |-> TRUE,
             layout |-> [B EXCEPT !.lglyphs = @ \o place_chunk(B, lg),
                                  !.cursor_x = @ + chunk_advance]]

\* whether flush_chunk breaks the line, and whether that break's align_line asserts
flush_breaks(L, lg) == Len(lg) > 0 /\ ~chunk_exceeds(L, lg) /\ chunk_breaks(L, lg)

flush_asserts(L, lg) == flush_breaks(L, lg) /\ align_line_asserts(break_pen(L))

fmax(a, b) == IF a > b THEN a ELSE b

(***************************************************************************)
(* utxt_layout_add_text.  The call runs as a begin step (the code before   *)
(* the loop), one step per iteration of "while (text.len)", and a return   *)
(* step (the flush after the loop); a failing flush inside the loop leaves *)
(* the loop and returns in the same step.  A call record F holds the       *)
(* layout and the call's locals.                                           *)
(***************************************************************************)
Call(L, t, prev, ch, ccx) ==
    [layout |-> L, text |-> t, prev_glyph_idx |-> prev, chunk |-> ch,
     chunk_cursor_x |-> ccx]

\* the code before the loop: current_line_height takes the font's into account
add_text_begin(L, font, t) ==
    Call([L EXCEPT !.current_line_height = fmax(@, font.line_height)], t, 0, <<>>, 0)

space_advance(font) == font.glyphs[find_glyph(font, 32)].advance

\* mutant: a space advances the pen at the start of a line too
whitespace_effect_always(L, font, c) ==
    IF c = 10 THEN break_current_line(L, font)
    ELSE IF c = 32 THEN [L EXCEPT !.cursor_x = @ + space_advance(font)]
    ELSE L

\* a decoded '\n' or ' ' (or '\r', which does nothing), after the flush
whitespace_effect(L, font, c) ==
    IF c = 10 THEN break_current_line(L, font)
    ELSE IF c = 32 THEN
        IF L.cursor_x > 0 THEN [L EXCEPT !.cursor_x = @ + space_advance(font)] ELSE L
    ELSE L

\* the glyph appended to the chunk, and the chunk cursor after it
chunk_append(F, st, font, glyph) ==
    LET g == font.glyphs[glyph]
        ccx == IF F.prev_glyph_idx # 0
               THEN F.chunk_cursor_x
                    + utxt_get_kerning(font, F.prev_glyph_idx, g.glyph_index)
               ELSE F.chunk_cursor_x
    IN [F EXCEPT !.prev_glyph_idx = g.glyph_index,
                 !.chunk = Append(@, [style |-> st, glyph |-> glyph,
                                      x |-> ccx + g.bearing_x, y |-> g.bearing_y]),
                 !.chunk_cursor_x = ccx + g.advance]

\* the flush after the loop and the returned count
add_text_return(F, font) ==
    LET R == flush_chunk(F.layout, font, F.chunk, F.chunk_cursor_x)
    IN [layout |-> R.layout, ret |-> lglyph_idx(R.layout)]

\* One iteration of the loop: [brk |-> whether it leaves the loop by break,
\* mid |-> the layout after the iteration's flush, call |-> the call after it].
add_text_iter(F, st, font) ==
    LET d == decode_utf8(F.text)
        T == [F EXCEPT !.text = d.s]
        glyph == find_glyph(font, d.cp)
        R == flush_chunk(F.layout, font, F.chunk, F.chunk_cursor_x)
    IN IF d.cp = 0
       THEN [brk |-> FALSE, mid |-> F.layout, call |-> [T EXCEPT !.prev_glyph_idx = 0]]
       ELSE IF is_whitespace(d.cp)
       THEN IF ~R.ok
            THEN [brk |-> TRUE, mid |-> R.layout, call |-> T]
            ELSE [brk |-> FALSE, mid |-> R.layout,
                  call |-> [T EXCEPT !.layout = whitespace_effect(R.layout, font, d.cp),
                                     !.chunk = <<>>, !.chunk_cursor_x = 0,
                                     !.prev_glyph_idx = 0]]
       ELSE IF glyph = 0
       THEN [brk |-> FALSE, mid |-> F.layout, call |-> [T EXCEPT !.prev_glyph_idx = 0]]
       ELSE [brk |-> FALSE, mid |-> F.layout, call |-> chunk_append(T, st, font, glyph)]

\* Whether an assertion fails in the iteration: get_width on an empty line in
\* the break of the flush or of '\n', or chunk_idx < chunk.size().
add_text_iter_asserts(F, font) ==
    LET d == decode_utf8(F.text)
        R == flush_chunk(F.layout, font, F.chunk, F.chunk_cursor_x)
    IN /\ d.cp # 0
       /\ IF is_whitespace(d.cp)
          THEN \/ flush_asserts(F.layout, F.chunk)
               \/ R.ok /\ d.cp = 10 /\ align_line_asserts(break_pen(R.layout))
          ELSE find_glyph(font, d.cp) # 0 /\ ~(Len(F.chunk) < ChunkSize)

\* the layout at the failing assertion of an iteration
add_text_iter_abort(F, font) ==
    LET R == flush_chunk(F.layout, font, F.chunk, F.chunk_cursor_x)
    IN IF flush_asserts(F.layout, F.chunk) THEN break_pen(F.layout)
       ELSE IF is_whitespace(decode_utf8(F.text).cp) THEN break_pen(R.layout)
       ELSE F.layout

(***************************************************************************)
(* utxt_layout_add_glyphs.  The header declares it ("This function will    *)
(* wrap individual glyphs"); its body is not part of the sources, and is   *)
(* modelled from the specification: the loop of add_text with the flush    *)
(* and break logic of flush_chunk, every resolved glyph a chunk of its     *)
(* own that is flushed at once.                                            *)
(***************************************************************************)
\* the chunk of one glyph
glyph_chunk(st, font, glyph) ==
    <<[style |-> st, glyph |-> glyph, x |-> font.glyphs[glyph].bearing_x,
       y |-> font.glyphs[glyph].bearing_y]>>

\* One iteration of the loop: [brk |-> whether it leaves the loop by break,
\* lg |-> the chunk it flushed, call |-> the call after it].
add_glyphs_iter(F, st, font) ==
    LET d == decode_utf8(F.text)
        T == [F EXCEPT !.text = d.s]
        glyph == find_glyph(font, d.cp)
        lg == glyph_chunk(st, font, glyph)
        R == flush_chunk(F.layout, font, lg, font.glyphs[glyph].advance)
    IN IF d.cp = 0 THEN [brk |-> FALSE, lg |-> <<>>, call |-> T]
       ELSE IF is_whitespace(d.cp)
       THEN [brk |-> FALSE, lg |-> <<>>,
             call |-> [T EXCEPT !.layout = whitespace_effect(F.layout, font, d.cp)]]
       ELSE IF glyph = 0 THEN [brk |-> FALSE, lg |-> <<>>, call |-> T]
       ELSE [brk |-> ~R.ok, lg |-> lg, call |-> [T EXCEPT !.layout = R.layout]]

\* whether an assertion fails in the iteration: get_width on an empty line
add_glyphs_iter_asserts(F, font) ==
    LET d == decode_utf8(F.text)
        glyph == find_glyph(font, d.cp)
    IN /\ d.cp # 0
       /\ IF is_whitespace(d.cp)
          THEN d.cp = 10 /\ align_line_asserts(break_pen(F.layout))
          ELSE glyph # 0 /\ flush_asserts(F.layout, glyph_chunk(1, font, glyph))

(***************************************************************************)
(* History.  It records, for the properties, what the last step did; no    *)
(* action reads it except to bound the run.                                *)
(*   op, cp    the last step and the codepoint its decode_utf8 returned    *)
(*   prev_op   the step before it                                          *)
(*   old       the layout and the call's locals before the step            *)
(*   mid       the layout after the step's flush                           *)
(*   flush     "none", "empty", "ok", "fail": the step's flush_chunk       *)
(*   pre       the layout when the running call began                      *)
(*   len0      the length of the span handed to the running call           *)
(*   steps     decode_utf8 calls of the running call                       *)
(*   fed, calls, computes   bytes added, add_text calls and compute calls  *)
(*             since the last reset                                        *)
(*   info      per committed glyph: ux its x when committed, line and      *)
(*             chunk the numbers of its line and chunk since the reset     *)
(*   lines, chunks   lines closed and chunks committed since the reset     *)
(*   args      the wrap width and alignment handed to the last reset       *)
(*   was       after a reset: what the layout held before it               *)
(*   draw      the arguments of the running utxt_draw_text call: whether   *)
(*             quads is not null, num_quads, _x and _y                     *)
(***************************************************************************)
\* what a layout held: its capacity, its alignment, its glyphs, its closed ones
Was(L, count, closed) ==
    [num_lglyphs |-> L.num_lglyphs, align |-> L.align, count |-> count, closed |-> closed]

Hist0(L) ==
    [op |-> "create", prev_op |-> "create", cp |-> 0, old |-> Call(L, <<>>, 0, <<>>, 0),
     mid |-> L, flush |-> "none", pre |-> L,
     len0 |-> 0, steps |-> 0, fed |-> 0, calls |-> 0, computes |-> 0, info |-> <<>>, lines |-> 0,
     chunks |-> 0, args |-> <<L.wrap_width, L.align>>, was |-> Was(L, 0, 0),
     draw |-> [quads |-> FALSE, num_quads |-> 0, x |-> 0, y |-> 0]]

flush_kind(L, lg, R) ==
    IF Len(lg) = 0 THEN "empty" ELSE IF R.ok THEN "ok" ELSE "fail"

\* the history after flush_chunk took L to R.layout, committing lg or not
note_flush(h, L, lg, R) ==
    LET b == IF R.layout.cursor_y # L.cursor_y THEN 1 ELSE 0
        n == lglyph_idx(R.layout) - lglyph_idx(L)
    IN [h EXCEPT !.lines = @ + b,
                 !.chunks = IF n > 0 THEN @ + 1 ELSE @,
                 !.info = @ \o [i \in 1..n |->
                                 [ux |-> R.layout.lglyphs[lglyph_idx(L) + i].x,
                                  line |-> h.lines + b, chunk |-> h.chunks + 1]]]

\* the history after a decoded '\n' closed a line
note_newline(h, c) == IF c = 10 THEN [h EXCEPT !.lines = @ + 1] ELSE h

(***************************************************************************)
(* The layout's specification: create, then reset, add_text and compute in *)
(* any order.                                                              *)
(***************************************************************************)
Init ==
    /\ \E n \in Capacities : layout = utxt_layout_create(n)
    /\ pc = "idle"
    /\ text = <<>>
    /\ style = 1
    /\ prev_glyph_idx = 0
    /\ chunk = <<>>
    /\ chunk_cursor_x = 0
    /\ ret = 0
    /\ cp = 0
    /\ hist = Hist0(layout)

Locals0 ==
    /\ text' = <<>>
    /\ prev_glyph_idx' = 0
    /\ chunk' = <<>>
    /\ chunk_cursor_x' = 0

SetCall(F) ==
    /\ layout' = F.layout
    /\ text' = F.text
    /\ prev_glyph_idx' = F.prev_glyph_idx
    /\ chunk' = F.chunk
    /\ chunk_cursor_x' = F.chunk_cursor_x

ThisCall == Call(layout, text, prev_glyph_idx, chunk, chunk_cursor_x)

Reset ==
    /\ pc = "idle"
    /\ \E w \in WrapWidths, a \in Aligns :
         /\ layout' = utxt_layout_reset(layout, w, a)
         /\ hist' = [Hist0(layout') EXCEPT
                         !.op = "reset", !.args = <<w, a>>,
                         !.was = Was(layout, lglyph_idx(layout), layout.line_start_idx)]
    /\ ret' = 0
    /\ cp' = 0
    /\ UNCHANGED <<pc, text, style, prev_glyph_idx, chunk, chunk_cursor_x>>

AddTextBegin ==
    /\ pc = "idle"
    /\ hist.calls + hist.computes < MaxOps
    /\ \E st \in Styles, t \in SeqsUpTo(LayoutBytes, Min(MaxTextLen, MaxBytes - hist.fed)) :
         /\ style' = st
         /\ SetCall(add_text_begin(layout, Fonts[st], t))
         /\ pc' = IF find_glyph(Fonts[st], 32) = 0 THEN "abort" ELSE "add_text"
         /\ hist' = [hist EXCEPT !.op = "begin", !.prev_op = hist.op, !.cp = 0,
                                 !.old = ThisCall, !.mid = layout, !.flush = "none",
                                 !.pre = layout, !.len0 = Len(t), !.steps = 0,
                                 !.fed = @ + Len(t), !.calls = @ + 1,
                                 !.was = Was(layout, 0, 0)]
    /\ UNCHANGED <<ret, cp>>

\* an iteration of the loop that runs to its end (or to the call's return)
AddTextIter ==
    /\ pc = "add_text"
    /\ Len(text) > 0
    /\ hist.steps <= hist.len0
    /\ LET font == Fonts[style]
           I == add_text_iter(ThisCall, style, font)
           d == decode_utf8(text)
           R == flush_chunk(layout, font, chunk, chunk_cursor_x)
           h == [hist EXCEPT !.op = "iter", !.prev_op = hist.op, !.cp = d.cp,
                             !.old = ThisCall, !.mid = I.mid,
                             !.steps = @ + 1,
                             !.flush = IF d.cp # 0 /\ is_whitespace(d.cp)
                                       THEN flush_kind(layout, chunk, R) ELSE "none"]
       IN /\ cp' = d.cp
          /\ IF I.brk
             THEN /\ layout' = add_text_return(I.call, font).layout
                  /\ ret' = add_text_return(I.call, font).ret
                  /\ Locals0
                  /\ pc' = "idle"
                  /\ hist' = h
             ELSE /\ SetCall(I.call)
                  /\ UNCHANGED <<ret, pc>>
                  /\ hist' = IF d.cp # 0 /\ is_whitespace(d.cp)
                             THEN note_newline(note_flush(h, layout, chunk, R), d.cp)
                             ELSE h
    /\ UNCHANGED style

\* an iteration in which an assertion fails
AddTextAbort ==
    /\ pc = "add_text"
    /\ Len(text) > 0
    /\ hist.steps <= hist.len0
    /\ add_text_iter_asserts(ThisCall, Fonts[style])
    /\ pc' = "abort"
    /\ layout' = add_text_iter_abort(ThisCall, Fonts[style])
    /\ cp' = decode_utf8(text).cp
    /\ hist' = [hist EXCEPT !.op = "abort", !.prev_op = hist.op, !.cp = cp',
                            !.old = ThisCall, !.mid = layout', !.steps = @ + 1,
                            !.flush = "none"]
    /\ UNCHANGED <<text, style, prev_glyph_idx, chunk, chunk_cursor_x, ret>>

\* the loop ended: the flush after the loop, and the return
AddTextReturn ==
    /\ pc = "add_text"
    /\ Len(text) = 0
    /\ LET font == Fonts[style]
           R == flush_chunk(layout, font, chunk, chunk_cursor_x)
           h == [hist EXCEPT !.op = "return", !.prev_op = hist.op, !.cp = 0,
                             !.old = ThisCall, !.mid = R.layout,
                             !.flush = flush_kind(layout, chunk, R)]
       IN /\ layout' = add_text_return(ThisCall, font).layout
          /\ ret' = add_text_return(ThisCall, font).ret
          /\ hist' = note_flush(h, layout, chunk, R)
    /\ Locals0
    /\ pc' = "idle"
    /\ UNCHANGED <<style, cp>>

Compute ==
    /\ pc = "idle"
    /\ hist.calls + hist.computes < MaxOps
    /\ layout' = align_line(layout)
    /\ hist' = [hist EXCEPT !.op = "compute", !.prev_op = hist.op, !.cp = 0,
                            !.old = ThisCall, !.mid = layout', !.flush = "none",
                            !.computes = @ + 1, !.was = Was(layout, 0, 0)]
    /\ UNCHANGED <<pc, text, style, prev_glyph_idx, chunk, chunk_cursor_x, ret, cp>>

\* utxt_layout_compute on an empty open line: the assertion of get_width fails
ComputeAbort ==
    /\ pc = "idle"
    /\ hist.calls + hist.computes < MaxOps
    /\ align_line_asserts(layout)
    /\ pc' = "abort"
    /\ hist' = [hist EXCEPT !.op = "abort", !.prev_op = hist.op, !.cp = 0,
                            !.old = ThisCall, !.mid = layout, !.flush = "none",
                            !.computes = @ + 1, !.was = Was(layout, 0, 0)]
    /\ UNCHANGED <<layout, text, style, prev_glyph_idx, chunk, chunk_cursor_x, ret, cp>>

Next ==
    \/ Reset
    \/ AddTextBegin
    \/ AddTextIter
    \/ AddTextAbort
    \/ AddTextReturn
    \/ Compute
    \/ ComputeAbort

Spec == Init /\ [][Next]_vars

(***************************************************************************)
(* The specification of add_glyphs: create, then reset and add_glyphs in   *)
(* any order.                                                              *)
(***************************************************************************)
AddGlyphsBegin ==
    /\ pc = "idle"
    /\ hist.calls < MaxOps
    /\ \E st \in Styles, t \in SeqsUpTo(LayoutBytes, Min(MaxTextLen, MaxBytes - hist.fed)) :
         /\ style' = st
         /\ SetCall(add_text_begin(layout, Fonts[st], t))
         /\ pc' = "add_glyphs"
         /\ hist' = [hist EXCEPT !.op = "begin", !.prev_op = hist.op, !.cp = 0,
                                 !.old = ThisCall, !.mid = layout, !.flush = "none",
                                 !.pre = layout, !.len0 = Len(t), !.steps = 0,
                                 !.fed = @ + Len(t), !.calls = @ + 1,
                                 !.was = Was(layout, 0, 0)]
    /\ UNCHANGED <<ret, cp>>

AddGlyphsIter ==
    /\ pc = "add_glyphs"
    /\ Len(text) > 0
    /\ hist.steps <= hist.len0
    /\ LET font == Fonts[style]
           I == add_glyphs_iter(ThisCall, style, font)
           d == decode_utf8(text)
           R == [ok |-> ~I.brk, layout |-> I.call.layout]
           h == [hist EXCEPT !.op = "glyph", !.prev_op = hist.op, !.cp = d.cp,
                             !.old = [ThisCall EXCEPT !.chunk = I.lg],
                             !.mid = I.call.layout, !.steps = @ + 1,
                             !.flush = IF I.lg # <<>>
                                       THEN flush_kind(layout, I.lg, R) ELSE "none"]
       IN /\ cp' = d.cp
          /\ layout' = I.call.layout
          /\ hist' = IF I.lg # <<>> THEN note_flush(h, layout, I.lg, R)
                     ELSE note_newline(h, d.cp)
          /\ IF I.brk
             THEN /\ ret' = lglyph_idx(I.call.layout)
                  /\ Locals0
                  /\ pc' = "idle"
             ELSE /\ text' = I.call.text
                  /\ UNCHANGED <<ret, pc, prev_glyph_idx, chunk, chunk_cursor_x>>
    /\ UNCHANGED style

AddGlyphsAbort ==
    /\ pc = "add_glyphs"
    /\ Len(text) > 0
    /\ hist.steps <= hist.len0
    /\ add_glyphs_iter_asserts(ThisCall, Fonts[style])
    /\ pc' = "abort"
    /\ layout' = break_pen(layout)
    /\ cp' = decode_utf8(text).cp
    /\ hist' = [hist EXCEPT !.op = "abort", !.prev_op = hist.op, !.cp = cp',
                            !.old = ThisCall, !.mid = layout', !.steps = @ + 1,
                            !.flush = "none"]
    /\ UNCHANGED <<text, style, prev_glyph_idx, chunk, chunk_cursor_x, ret>>

AddGlyphsReturn ==
    /\ pc = "add_glyphs"
    /\ Len(text) = 0
    /\ ret' = lglyph_idx(layout)
    /\ hist' = [hist EXCEPT !.op = "return", !.prev_op = hist.op, !.cp = 0,
                            !.old = ThisCall, !.mid = layout, !.flush = "none"]
    /\ Locals0
    /\ pc' = "idle"
    /\ UNCHANGED <<layout, style, cp>>

NextGlyphs ==
    \/ Reset
    \/ AddGlyphsBegin
    \/ AddGlyphsIter
    \/ AddGlyphsAbort
    \/ AddGlyphsReturn

SpecGlyphs == Init /\ [][NextGlyphs]_vars

(***************************************************************************)
(* The specification of add_text on a long word: create, then one call of  *)
(* add_text with a run of 'a' without whitespace.                          *)
(***************************************************************************)
AddLongWordBegin ==
    /\ pc = "idle"
    /\ hist.calls = 0
    /\ \E st \in Styles, n \in LongWordLens :
         /\ style' = st
         /\ SetCall(add_text_begin(layout, Fonts[st], [i \in 1..n |-> 97]))
         /\ pc' = IF find_glyph(Fonts[st], 32) = 0 THEN "abort" ELSE "add_text"
         /\ hist' = [hist EXCEPT !.op = "begin", !.prev_op = hist.op, !.cp = 0,
                                 !.old = ThisCall, !.mid = layout, !.flush = "none",
                                 !.pre = layout, !.len0 = n, !.steps = 0,
                                 !.fed = @ + n, !.calls = @ + 1]
    /\ UNCHANGED <<ret, cp>>

NextLongWord ==
    \/ AddLongWordBegin
    \/ AddTextIter
    \/ AddTextAbort
    \/ AddTextReturn

SpecLongWord == Init /\ [][NextLongWord]_vars

(***************************************************************************)
(* The decoder's specification: decode_utf8 called again and again on a    *)
(* byte span, as every decode loop of the library does, until the span is  *)
(* empty.                                                                  *)
(***************************************************************************)
InitUtf8 ==
    /\ layout = utxt_layout_create(0)
    /\ pc = "decode"
    /\ text \in SeqsUpTo(SpanBytes, MaxSpanLen)
    /\ style = 1
    /\ prev_glyph_idx = 0
    /\ chunk = <<>>
    /\ chunk_cursor_x = 0
    /\ ret = 0
    /\ cp = 0
    /\ hist = [Hist0(layout) EXCEPT !.len0 = Len(text)]

Decode ==
    /\ pc = "decode"
    /\ Len(text) > 0
    /\ hist.steps <= hist.len0
    /\ text' = decode_utf8(text).s
    /\ cp' = decode_utf8(text).cp
    /\ hist' = [hist EXCEPT !.op = "decode", !.prev_op = hist.op, !.cp = cp',
                            !.old = ThisCall, !.steps = @ + 1]
    /\ UNCHANGED <<layout, pc, style, prev_glyph_idx, chunk, chunk_cursor_x, ret>>

NextUtf8 == Decode

SpecUtf8 == InitUtf8 /\ [][NextUtf8]_vars

(***************************************************************************)
(* The lookup's specification: utxt_find_glyph on a font made of a sorted  *)
(* glyph table.  text holds the table's codepoints, cp the codepoint       *)
(* looked up and ret the glyph pointer returned.                           *)
(***************************************************************************)
InitFind ==
    /\ layout = utxt_layout_create(0)
    /\ pc = "find"
    /\ \E S \in SUBSET TableCodepoints :
         /\ Cardinality(S) <= MaxGlyphs
         /\ text = Ascending(S)
    /\ cp \in Queries
    /\ style = 1
    /\ prev_glyph_idx = 0
    /\ chunk = <<>>
    /\ chunk_cursor_x = 0
    /\ ret = 0
    /\ hist = Hist0(layout)

FindGlyph ==
    /\ pc = "find"
    /\ ret' = find_glyph(TableFont(text), cp)
    /\ pc' = "found"
    /\ hist' = [hist EXCEPT !.op = "find", !.prev_op = hist.op]
    /\ UNCHANGED <<layout, text, style, prev_glyph_idx, chunk, chunk_cursor_x, cp>>

NextFind == FindGlyph

SpecFind == InitFind /\ [][NextFind]_vars

(***************************************************************************)
(* The specification of utxt_draw_text: one call, with or without a        *)
(* buffer.  text, prev_glyph_idx and ret are the call's, chunk_cursor_x    *)
(* its cursor_x and chunk the quads written; pc is "count" inside          *)
(* count_quads, "draw" inside the loop of utxt_draw_text, "done" after the *)
(* return.                                                                 *)
(***************************************************************************)
InitDraw ==
    /\ layout = utxt_layout_create(0)
    /\ text \in SeqsUpTo(DrawBytes, MaxDrawLen)
    /\ style \in Styles
    /\ prev_glyph_idx = 0
    /\ chunk = <<>>
    /\ ret = 0
    /\ cp = 0
    /\ \E quads \in BOOLEAN, num_quads \in 0..MaxQuads, x \in DrawOrigins :
         /\ pc = IF quads THEN "draw" ELSE "count"
         /\ chunk_cursor_x = IF quads THEN x ELSE 0
         /\ hist = [Hist0(layout) EXCEPT
                       !.len0 = Len(text),
                       !.old = Call(layout, text, 0, <<>>, 0),
                       !.draw = [quads |-> quads, num_quads |-> num_quads, x |-> x,
                                 y |-> px(20)]]

ThisDraw == Draw(text, chunk_cursor_x, chunk, prev_glyph_idx, ret, FALSE)

SetDraw(D, loop) ==
    /\ text' = D.text
    /\ chunk_cursor_x' = D.cursor_x
    /\ chunk' = D.quads
    /\ prev_glyph_idx' = D.prev_glyph_idx
    /\ ret' = D.ret
    /\ pc' = IF D.done THEN "done" ELSE loop

DrawTextIter ==
    /\ pc = "draw"
    /\ hist.steps <= hist.len0
    /\ SetDraw(draw_text_iter(Fonts[style], ThisDraw, hist.draw.num_quads, hist.draw.y),
               "draw")
    /\ hist' = [hist EXCEPT !.op = "draw", !.prev_op = hist.op, !.steps = @ + 1]
    /\ UNCHANGED <<layout, style, cp>>

CountQuadsIter ==
    /\ pc = "count"
    /\ hist.steps <= hist.len0
    /\ SetDraw(count_quads_iter(Fonts[style], ThisDraw), "count")
    /\ hist' = [hist EXCEPT !.op = "count", !.prev_op = hist.op, !.steps = @ + 1]
    /\ UNCHANGED <<layout, style, cp>>

NextDraw ==
    \/ DrawTextIter
    \/ CountQuadsIter

SpecDraw == InitDraw /\ [][NextDraw]_vars

(***************************************************************************)
(* Properties.                                                             *)
(***************************************************************************)
\* C1: every call of decode_utf8 on a non-empty span consumes at least one
\* byte: the span it leaves is strictly shorter than the span it was given.
C1_DecodeConsumes ==
    hist.op = "decode" => Len(text) < Len(hist.old.text)

\* C2: a decode loop over a span of N bytes ends: add_text runs at most N
\* iterations of "while (text.len)" before it returns.
C2_AddTextTerminates ==
    hist.steps <= hist.len0

\* C3: utxt_layout_compute is idempotent: a compute that directly follows a
\* compute leaves every committed glyph where the first one put it.
C3_ComputeIdempotent ==
    hist.op = "compute" /\ hist.prev_op = "compute"
        => layout.lglyphs = hist.old.layout.lglyphs

\* the committed glyphs of line k (numbered since the reset)
LineGlyphs(k) == {i \in 1..Len(hist.info) : hist.info[i].line = k}

SetMin(S) == CHOOSE m \in S : \A n \in S : m <= n

SetMax(S) == CHOOSE m \in S : \A n \in S : m >= n

\* the visual width of line k as its glyphs were committed, before any shift
UnalignedWidth(k) ==
    LET lo == SetMin(LineGlyphs(k))
        hi == SetMax(LineGlyphs(k))
    IN (hist.info[hi].ux + GlyphOf(layout.lglyphs[hi]).width)
       - (hist.info[lo].ux - GlyphOf(layout.lglyphs[lo]).bearing_x)

\* the one shift the alignment mode gives line k
LineShift(k) ==
    IF layout.align = UTXT_TEXT_ALIGN_CENTER
    THEN layout.wrap_width \div 2 - UnalignedWidth(k) \div 2
    ELSE IF layout.align = UTXT_TEXT_ALIGN_RIGHT
    THEN layout.wrap_width - UnalignedWidth(k)
    ELSE 0

\* C4: after any sequence of add_text and compute calls that ends with
\* compute, every committed glyph has been shifted exactly once: its x is
\* its unaligned x plus the shift of its line.
C4_ShiftedOnce ==
    hist.op = "compute"
        => \A i \in 1..Len(layout.lglyphs) :
              layout.lglyphs[i].x = hist.info[i].ux + LineShift(hist.info[i].line)

\* the history holds one entry per committed glyph
HistInfoInv == Len(hist.info) = Len(layout.lglyphs)

\* the halving of CENTER alignment is exact on every line the model reaches
ExactHalves ==
    /\ layout.wrap_width % 2 = 0
    /\ get_width(line_span(layout)) % 2 = 0
    /\ get_width(line_span(hist.mid)) % 2 = 0

(***************************************************************************)
(* The last step's flush, read off the history: the layout O it started    *)
(* from, the chunk and its advance, and the layout M it left.              *)
(***************************************************************************)
O == hist.old.layout

M == hist.mid

FlushedChunk == hist.old.chunk

FlushedAdvance == hist.old.chunk_cursor_x

\* the glyph count before the flush
N0 == Len(O.lglyphs)

\* left edge of the first glyph's pen to the right edge of the last glyph
VisualWidth(lg) ==
    (lg[Len(lg)].x + GlyphOf(lg[Len(lg)]).width) - (lg[1].x - GlyphOf(lg[1]).bearing_x)

\* the line has content and the chunk would overflow the wrap width
Overflows == O.cursor_x > 0 /\ O.cursor_x + VisualWidth(FlushedChunk) > O.wrap_width

\* the advance of the space glyph of the running call's font
SpaceAdvance ==
    LET g == CHOOSE g \in {Fonts[style].glyphs[i] : i \in DOMAIN Fonts[style].glyphs} :
                 g.codepoint = 32
    IN g.advance

\* C5, as claimed: a call that ran out of capacity returns with every entry
\* committed before the call exactly as it was before the call.
C5_EntriesAsBeforeCall ==
    /\ Len(layout.lglyphs) <= layout.num_lglyphs
    /\ pc = "idle" /\ hist.flush = "fail"
         => /\ ret <= layout.num_lglyphs
            /\ SubSeq(layout.lglyphs, 1, Len(hist.pre.lglyphs)) = hist.pre.lglyphs

\* C5, amended: the glyph count and the returned count never exceed the
\* capacity; the flush that runs out of capacity changes no committed entry;
\* the call it ends leaves the style, glyph and y of every entry committed
\* before the call, and the x of those on lines closed before the call.
C5_CapacityKept ==
    /\ Len(layout.lglyphs) <= layout.num_lglyphs
    /\ ret <= layout.num_lglyphs
    /\ hist.flush = "fail"
         => /\ layout.lglyphs = O.lglyphs
            /\ Len(layout.lglyphs) >= Len(hist.pre.lglyphs)
            /\ \A i \in 1..Len(hist.pre.lglyphs) :
                 /\ layout.lglyphs[i].style = hist.pre.lglyphs[i].style
                 /\ layout.lglyphs[i].glyph = hist.pre.lglyphs[i].glyph
                 /\ layout.lglyphs[i].y = hist.pre.lglyphs[i].y
                 /\ i <= hist.pre.line_start_idx
                      => layout.lglyphs[i].x = hist.pre.lglyphs[i].x

\* a call that ran out of capacity on a layout that already held glyphs
C5_Witness ==
    pc = "idle" /\ hist.flush = "fail" /\ Len(hist.pre.lglyphs) > 0

\* C6: a flush that does not fit commits nothing, closes and aligns no line,
\* moves no pen, and ends the call: no later input takes effect and the call
\* returns the glyph count committed before the flush.
C6_FailedFlushStops ==
    hist.flush = "fail"
        => /\ layout = O
           /\ pc = "idle"
           /\ ret = N0

\* a failing flush with input left behind the whitespace that caused it
C6_Witness ==
    hist.flush = "fail" /\ hist.op = "iter" /\ Len(hist.old.text) > 1

\* C7: a flushed chunk goes to a new line exactly when the line has content
\* and the chunk overflows: the line is closed and aligned first and the
\* chunk placed from pen x = 0, one line height down; otherwise it is placed
\* at the pen.  Either way cursor_x advances by the chunk's advance.
C7_FlushPlacesChunk ==
    hist.flush = "ok"
        => /\ Len(M.lglyphs) = N0 + Len(FlushedChunk)
           /\ hist.op = "return" => layout = M
           /\ IF Overflows
              THEN /\ \A i \in 1..Len(FlushedChunk) :
                        M.lglyphs[N0 + i] =
                            [FlushedChunk[i] EXCEPT
                                !.y = @ + O.cursor_y + O.current_line_height]
                   /\ \A j \in 1..N0 :
                        M.lglyphs[j] =
                            IF j > O.line_start_idx
                            THEN [O.lglyphs[j] EXCEPT
                                     !.x = @ + align_shift(O, line_span(O))]
                            ELSE O.lglyphs[j]
                   /\ M.cursor_x = FlushedAdvance
                   /\ M.cursor_y = O.cursor_y + O.current_line_height
                   /\ M.line_start_idx = N0
              ELSE /\ \A i \in 1..Len(FlushedChunk) :
                        M.lglyphs[N0 + i] =
                            [FlushedChunk[i] EXCEPT !.x = @ + O.cursor_x,
                                                    !.y = @ + O.cursor_y]
                   /\ SubSeq(M.lglyphs, 1, N0) = O.lglyphs
                   /\ M.cursor_x = O.cursor_x + FlushedAdvance
                   /\ M.cursor_y = O.cursor_y
                   /\ M.line_start_idx = O.line_start_idx

\* a chunk that wrapped onto a new line of a centred layout
C7_Witness ==
    /\ hist.flush = "ok"
    /\ Overflows
    /\ layout.align = UTXT_TEXT_ALIGN_CENTER
    /\ M.cursor_y > O.cursor_y

\* C8: the glyphs of one chunk share one line and one pen y; a chunk flushed
\* onto an empty line is committed there without a break, however wide; a
\* flush breaks at most once, and commits the chunk whenever it fits.
C8_ChunkNeverSplit ==
    /\ \A i, j \in 1..Len(layout.lglyphs) :
         hist.info[i].chunk = hist.info[j].chunk
            => /\ hist.info[i].line = hist.info[j].line
               /\ layout.lglyphs[i].y - GlyphOf(layout.lglyphs[i]).bearing_y
                  = layout.lglyphs[j].y - GlyphOf(layout.lglyphs[j]).bearing_y
    /\ hist.flush \in {"ok", "fail"}
         => /\ hist.flush = "ok" <=> N0 + Len(FlushedChunk) <= O.num_lglyphs
            /\ M.cursor_y \in {O.cursor_y, O.cursor_y + O.current_line_height}
    /\ hist.flush = "ok"
         => /\ Len(M.lglyphs) = N0 + Len(FlushedChunk)
            /\ O.cursor_x = 0
                 => /\ M.cursor_y = O.cursor_y
                    /\ M.line_start_idx = O.line_start_idx
                    /\ \A i \in 1..Len(FlushedChunk) :
                         M.lglyphs[N0 + i].y = FlushedChunk[i].y + O.cursor_y

\* a chunk wider than the wrap width committed on an empty line
C8_Witness ==
    /\ hist.flush = "ok"
    /\ O.cursor_x = 0
    /\ O.wrap_width > 0
    /\ Len(FlushedChunk) > 1
    /\ VisualWidth(FlushedChunk) > O.wrap_width

\* C9: every decoded '\n' whose pending chunk was flushed closes the line:
\* cursor_x becomes 0, cursor_y grows by the line height and the next glyph
\* starts a new line, whether or not the line has content.
C9_NewlineBreaks ==
    hist.cp = 10 /\ hist.op \in {"iter", "abort"} /\ hist.flush # "fail"
        => /\ pc = "add_text"
           /\ layout.cursor_x = 0
           /\ layout.cursor_y = M.cursor_y + M.current_line_height
           /\ layout.line_start_idx = Len(layout.lglyphs)

\* the space is the first character of its line: nothing before it on the line
AtLineStart == O.cursor_x = 0 /\ FlushedChunk = <<>>

\* no committed glyph is a space
NoSpaceGlyph ==
    \A i \in 1..Len(layout.lglyphs) : GlyphOf(layout.lglyphs[i]).codepoint # 32

\* C10, as claimed: a decoded space emits no glyph; at the start of a line
\* it leaves cursor_x at 0, anywhere else it advances cursor_x by the space
\* glyph's advance.
C10_SpaceAdvancesOffStart ==
    /\ NoSpaceGlyph
    /\ hist.op = "iter" /\ hist.cp = 32
         => /\ layout.lglyphs = M.lglyphs
            /\ layout.cursor_x = IF AtLineStart THEN 0 ELSE M.cursor_x + SpaceAdvance

\* C10, amended: a decoded space emits no glyph.  When the pending chunk
\* does not fit, the space has no effect.  Otherwise it advances cursor_x by
\* the space glyph's advance if the pen is past the line start (cursor_x > 0
\* after the flush), and leaves cursor_x at 0 if it is not.
C10_SpaceAdvancesPastStart ==
    /\ NoSpaceGlyph
    /\ hist.op = "iter" /\ hist.cp = 32
         => /\ layout.lglyphs = M.lglyphs
            /\ IF hist.flush = "fail"
               THEN layout = O
               ELSE /\ layout.cursor_x =
                         IF M.cursor_x > 0 THEN M.cursor_x + SpaceAdvance ELSE 0
                    /\ AtLineStart => layout.cursor_x = 0
                    /\ layout.cursor_y = M.cursor_y

\* a leading space suppressed right after another one
C10_Witness ==
    /\ hist.op = "iter" /\ hist.cp = 32
    /\ hist.prev_op = "iter"
    /\ hist.len0 - Len(text) = 2
    /\ hist.steps = 2
    /\ AtLineStart
    /\ layout.cursor_x = 0
    /\ layout.lglyphs = <<>>
    /\ chunk = <<>>

(***************************************************************************)
(* Alignment.                                                              *)
(***************************************************************************)
\* the shift an alignment mode gives a line of visual width w
ExpectedShift(align, wrap_width, w) ==
    IF align = UTXT_TEXT_ALIGN_CENTER THEN wrap_width \div 2 - w \div 2
    ELSE IF align = UTXT_TEXT_ALIGN_RIGHT THEN wrap_width - w
    ELSE 0

\* T holds the entries of S, those of S's open line shifted in x by the
\* shift of S's alignment mode and nothing else changed
LineAligned(S, T) ==
    /\ Len(T.lglyphs) >= Len(S.lglyphs)
    /\ \A j \in 1..Len(S.lglyphs) :
         T.lglyphs[j] =
             IF j > S.line_start_idx
             THEN [S.lglyphs[j] EXCEPT
                      !.x = @ + ExpectedShift(S.align, S.wrap_width,
                                              VisualWidth(line_span(S)))]
             ELSE S.lglyphs[j]

\* C11: whenever a line is aligned (by compute, by a '\n', by a wrapping
\* chunk) LEFT shifts no glyph, CENTER shifts every glyph of the line by
\* wrap_width/2 - width/2 and RIGHT by wrap_width - width, width being the
\* line's visual width; the shift is one for the line and changes only x.
\* A wrap width of 100 and a width of 40 give a CENTER shift of 30.
C11_AlignShifts ==
    /\ ExpectedShift(UTXT_TEXT_ALIGN_CENTER, px(100), px(40)) = px(30)
    /\ ExpectedShift(UTXT_TEXT_ALIGN_LEFT, px(100), px(40)) = 0
    /\ hist.op = "compute" => LineAligned(O, layout) /\ Len(layout.lglyphs) = N0
    /\ hist.op = "iter" /\ hist.cp = 10 /\ hist.flush # "fail"
         => LineAligned(M, layout) /\ Len(layout.lglyphs) = Len(M.lglyphs)
    /\ hist.flush = "ok" /\ Overflows => LineAligned(O, M)

\* a '\n' that closed a centred line of two glyphs and moved them
C11_Witness ==
    /\ hist.op = "iter" /\ hist.cp = 10 /\ hist.flush # "fail"
    /\ M.align = UTXT_TEXT_ALIGN_CENTER
    /\ Len(line_span(M)) = 2
    /\ layout.lglyphs[1].x > M.lglyphs[1].x
    /\ layout.lglyphs[2].x - M.lglyphs[2].x = layout.lglyphs[1].x - M.lglyphs[1].x

(***************************************************************************)
(* The line's width and utxt_get_text_width.                               *)
(***************************************************************************)
\* the open line holds glyphs, all of one chunk (one style, kerned as one
\* run) and so laid out from pen 0
OneChunkLine ==
    /\ pc = "idle"
    /\ Len(line_span(layout)) > 0
    /\ \A i \in (layout.line_start_idx + 1)..Len(layout.lglyphs) :
         hist.info[i].chunk = hist.info[Len(layout.lglyphs)].chunk

\* the text of the open line's glyphs
LineText == [i \in 1..Len(line_span(layout)) |-> GlyphOf(line_span(layout)[i]).codepoint]

LineFont == Fonts[line_span(layout)[1].style]

\* C12: the width the layout computes for a line laid out from pen 0 is the
\* value utxt_get_text_width returns for the line's glyphs with the same
\* kerning: (pen - last.advance + last.bearing_x + last.width) - first.bearing_x.
C12_LineWidthIsTextWidth ==
    OneChunkLine
        => /\ utxt_get_text_width(LineFont, LineText).ends
           /\ get_width(line_span(layout)) = utxt_get_text_width(LineFont, LineText).width

(***************************************************************************)
(* add_glyphs.                                                             *)
(***************************************************************************)
\* the glyph the last step of add_glyphs flushed
StepGlyph == GlyphOf(FlushedChunk[1])

\* the line has content and the glyph would overflow the wrap width
GlyphOverflows ==
    O.cursor_x > 0 /\ O.cursor_x + StepGlyph.bearing_x + StepGlyph.width > O.wrap_width

FreshReset ==
    utxt_layout_reset(utxt_layout_create(hist.was.num_lglyphs), hist.args[1], hist.args[2])

\* C14: utxt_layout_reset, whatever the layout held, leaves it empty (no
\* glyph, pen at (0, 0), line start 0, line height 0) with the wrap width and
\* alignment it was handed and the capacity it had, in the very state of a
\* freshly created layout of that capacity after the same reset, so that
\* what follows the reset is what follows it on a fresh layout.
C14_ResetEmpties ==
    /\ layout.wrap_width = hist.args[1] /\ layout.align = hist.args[2]
    /\ hist.op = "reset"
         => /\ Len(layout.lglyphs) = 0
            /\ layout.cursor_x = 0 /\ layout.cursor_y = 0
            /\ layout.line_start_idx = 0
            /\ layout.current_line_height = 0
            /\ layout.num_lglyphs = hist.was.num_lglyphs
            /\ layout = FreshReset
            /\ pc = "idle" /\ text = <<>> /\ chunk = <<>>
            /\ prev_glyph_idx = 0 /\ chunk_cursor_x = 0

\* a reset of a full layout with a closed line, to another alignment
C14_Witness ==
    /\ hist.op = "reset"
    /\ hist.was.num_lglyphs = 2 /\ hist.was.count = 2
    /\ hist.was.closed > 0
    /\ hist.was.align = UTXT_TEXT_ALIGN_RIGHT
    /\ layout.align = UTXT_TEXT_ALIGN_CENTER

(***************************************************************************)
(* Lookup.                                                                 *)
(***************************************************************************)
\* the codepoints of the table looked into
TableSet == {text[i] : i \in 1..Len(text)}

\* C15: on a glyph table strictly ascending by codepoint utxt_find_glyph
\* returns the glyph of the codepoint asked for when the table holds it and
\* null when it does not, an empty table and codepoints below the first and
\* above the last key included.
C15_FindGlyphExact ==
    pc = "found"
        => /\ \A i \in 1..(Len(text) - 1) : text[i] < text[i + 1]
           /\ cp \in TableSet
                => /\ ret \in 1..Len(text)
                   /\ TableFont(text).glyphs[ret].codepoint = cp
           /\ cp \notin TableSet => ret = 0

\* the last glyph of a table of four or more found
C15_Witness ==
    /\ pc = "found"
    /\ Len(text) >= 4
    /\ ret = Len(text)
    /\ cp = text[Len(text)]

(***************************************************************************)
(* utxt_draw_text.                                                         *)
(***************************************************************************)
\* The quads a run with room for all of them writes for the span t, pen at
\* cursor and prev the glyph index before it: one per codepoint that decodes
\* and has a glyph, at the pen plus kerning plus bearing.  Bytes from which
\* the decoder makes no progress end the list.
RECURSIVE AllQuads(_, _, _, _, _)
AllQuads(font, t, cursor, prev, y) ==
    IF Len(t) = 0 THEN <<>>
    ELSE LET d == decode_utf8(t)
             known == d.cp # 0 /\ d.cp \in {font.glyphs[i].codepoint : i \in DOMAIN font.glyphs}
             i == CHOOSE i \in DOMAIN font.glyphs : font.glyphs[i].codepoint = d.cp
             g == font.glyphs[i]
             k == IF prev = 0 THEN 0
                  ELSE LET P == {j \in DOMAIN font.kerning_pairs :
                                    /\ font.kerning_pairs[j].first_glyph = prev
                                    /\ font.kerning_pairs[j].second_glyph = g.glyph_index}
                       IN IF P = {} THEN 0 ELSE font.kerning_pairs[CHOOSE j \in P : TRUE].amount
         IN IF d.s = t THEN <<>>
            ELSE IF ~known THEN AllQuads(font, d.s, cursor, 0, y)
            ELSE <<[x |-> cursor + k + g.bearing_x, y |-> y + g.bearing_y, glyph |-> i]>>
                 \o AllQuads(font, d.s, cursor + k + g.advance, g.glyph_index, y)

\* the quads of the text handed to the call
TextQuads == AllQuads(Fonts[style], hist.old.text, hist.draw.x, 0, hist.draw.y)

\* C16: without a buffer utxt_draw_text returns the number of quads of the
\* text, one per decoded codepoint that has a glyph.  With a buffer of N
\* quads it never writes more than N, what it has written is at every
\* moment the first quads of the text, and it returns their number when
\* the text has at most N quads and N + 1 when it has more.
C16_DrawTextCounts ==
    /\ pc = "count" \/ (pc = "done" /\ ~hist.draw.quads)
         => /\ chunk = <<>>
            /\ pc = "done" => ret = Len(TextQuads)
    /\ pc = "draw" \/ (pc = "done" /\ hist.draw.quads)
         => /\ Len(chunk) <= hist.draw.num_quads
            /\ Len(chunk) <= Len(TextQuads)
            /\ chunk = SubSeq(TextQuads, 1, Len(chunk))
            /\ pc = "done"
                 => /\ Len(chunk) = Min(hist.draw.num_quads, Len(TextQuads))
                    /\ ret = IF Len(TextQuads) <= hist.draw.num_quads
                             THEN Len(TextQuads) ELSE hist.draw.num_quads + 1

\* a text of three quads drawn into a buffer of two from a shifted origin
C16_Witness ==
    /\ pc = "done" /\ hist.draw.quads
    /\ hist.draw.num_quads = 2 /\ hist.draw.x > 0
    /\ Len(TextQuads) = 3
    /\ Len(chunk) = 2
    /\ ret = 3

(***************************************************************************)
(* Empty lines.                                                            *)
(***************************************************************************)
\* C17: no call measures an empty line: the assertion 'lglyphs.size() > 0'
\* of get_width fails in no reachable call, be it compute right after a
\* reset or a '\n', or a '\n' at the start of a line, in any alignment mode.
C17_EmptyLineNeverMeasured ==
    ~(pc = "abort" /\ hist.op = "abort" /\ align_line_asserts(layout))

(***************************************************************************)
(* Closed lines.                                                           *)
(***************************************************************************)
\* the entries of the lines closed in S are in T as they are in S
KeepsClosed(S, T) ==
    /\ S.line_start_idx <= T.line_start_idx
    /\ closed_span(S) = SubSeq(T.lglyphs, 1, S.line_start_idx)

\* C18: no step of add_text or compute changes the style, glyph, x or y of
\* an entry of a closed line (an entry below line_start_idx), and
\* line_start_idx never decreases before the next reset, so a closed line
\* stays as it is; line_start_idx <= glyph count <= capacity always.
C18_ClosedLinesFrozen ==
    /\ layout.line_start_idx <= Len(layout.lglyphs)
    /\ Len(layout.lglyphs) <= layout.num_lglyphs
    /\ hist.op \notin {"create", "reset"}
         => /\ KeepsClosed(O, M)
            /\ KeepsClosed(M, layout)
            /\ KeepsClosed(hist.pre, layout)

\* a compute that shifted the open line of a layout with a closed line
C18_Witness ==
    /\ hist.op = "compute"
    /\ O.line_start_idx > 0
    /\ Len(line_span(O)) > 0
    /\ layout.lglyphs[Len(layout.lglyphs)].x # O.lglyphs[Len(O.lglyphs)].x
    /\ hist.lines > 0

(***************************************************************************)
(* The chunk array.                                                        *)
(***************************************************************************)
\* C19: the glyphs held in the current chunk never exceed the 128 entries of
\* the chunk array: the assertion 'chunk_idx < chunk.size()' holds whenever
\* a glyph is appended, and no entry is written past the end of the array,
\* also for a run of more than 128 glyphs without whitespace.
C19_ChunkWithinBuffer ==
    /\ Len(chunk) <= ChunkSize
    /\ ~(pc = "abort" /\ hist.op = "abort" /\ Len(chunk) >= ChunkSize)

(***************************************************************************)
(* Line heights.                                                           *)
(***************************************************************************)
\* the height of a line: the largest line_height among the fonts of its
\* glyphs, the call's font's when it holds none
LineHeight(lg) ==
    IF Len(lg) = 0 THEN Fonts[style].line_height
    ELSE SetMax({Fonts[lg[i].style].line_height : i \in 1..Len(lg)})

\* C20: when a line is closed, by a wrapping chunk or by a '\n', cursor_y
\* grows by the line's height, which is the largest line_height among the
\* fonts of the glyphs committed on that line (the closing call's font's
\* for a line without glyphs); a font without a glyph on the line does not
\* count.
C20_LineHeightOfItsGlyphs ==
    /\ hist.flush = "ok" /\ Overflows
         => M.cursor_y - O.cursor_y = LineHeight(line_span(O))
    /\ hist.op = "iter" /\ hist.cp = 10 /\ hist.flush # "fail"
         => layout.cursor_y - M.cursor_y = LineHeight(line_span(M))

====
